---- MODULE Spec2Model ----
(***************************************************************************)
(* Legacy trading console: the classification / scoring pipeline of       *)
(* legacy_logic.py and the Streamlit script app.py that drives it.        *)
(*                                                                         *)
(* Numbers.  Spreadsheet cells are decimals with three places, held as    *)
(* integers in thousandths (2.495 is 2495).  Scores are held in           *)
(* millionths, so that round(x, 2) is a real operation on them.  The      *)
(* EMAs are computed in fixed point, in hundred-thousandths.               *)
(***************************************************************************)
EXTENDS Integers, Sequences, FiniteSets, TLC

VARIABLES
    raw,          \* the sheet read by pd.read_csv / pd.read_excel
    df,           \* the frame load_data returned (NoFrame before)
    swing_df,     \* swing_filter(df)
    pos_df,       \* positional_filter(df)                    (app.py)
    near_df,      \* near_miss_filter(df)
    swing_score,  \* df.apply(compute_swing_score, axis=1)
    pos_score,    \* df.apply(compute_positional_score, axis=1)
    swing_table,  \* build_swing_table(...)
    pos_table,    \* build_positional_table(...)
    near_table,   \* build_near_miss_table(near_df)          (app.py)
    error,        \* the exception that ended the call / the run ("" if none)
    pc,           \* position of the caller
    now,          \* wall clock, in seconds since midnight      (app.py)
    run_start,    \* wall clock when the current script run began
    alerts,       \* symbols send_telegram_alert was called for in this run
    prev_early,   \* symbols Early Expansion in the previous run's Swing set
    cur_early     \* symbols Early Expansion in this run's Swing set

vars == <<raw, df, swing_df, pos_df, near_df, swing_score, pos_score,
          swing_table, pos_table, near_table, error, pc, now, run_start,
          alerts, prev_early, cur_early>>

(***************************************************************************)
(* Cells and frames                                                        *)
(***************************************************************************)
Num(n)  == [k |-> "num", v |-> n, s |-> ""]
Text(t) == [k |-> "str", v |-> 0, s |-> t]
NaN     == [k |-> "nan", v |-> 0, s |-> ""]

\* A decimal whole.frac (frac in thousandths) as a cell value.
Dec(whole, frac) == whole * (10 * 100) + frac

NoFrame == [columns |-> <<>>, rows |-> <<>>]

Range(s) == {s[i] : i \in DOMAIN s}

\* The position of the first column called name, 0 when there is none.
RECURSIVE ColIndexFrom(_, _, _)
ColIndexFrom(columns, name, i) ==
    IF i > Len(columns) THEN 0
    ELSE IF columns[i] = name THEN i
    ELSE ColIndexFrom(columns, name, i + 1)

ColIndex(columns, name) == ColIndexFrom(columns, name, 1)

\* row[name] of a row of frame f.
Get(f, row, name) == row[ColIndex(f.columns, name)]

HasCol(f, name) == ColIndex(f.columns, name) # 0

\* f[name] = value for every row: overwrites the column or appends it.
SetCol(f, name, values) ==
    IF HasCol(f, name)
    THEN [f EXCEPT !.rows =
            [i \in DOMAIN f.rows |->
                [f.rows[i] EXCEPT ![ColIndex(f.columns, name)] = values[i]]]]
    ELSE [columns |-> Append(f.columns, name),
          rows |-> [i \in DOMAIN f.rows |-> Append(f.rows[i], values[i])]]

\* The symbols of the rows of f (the rows of a sheet have distinct symbols).
Symbols(f) == {Get(f, f.rows[i], "symbol").s : i \in DOMAIN f.rows}

\* f[mask]: the rows whose mask is true, in order.
RECURSIVE SelectRows(_, _)
SelectRows(rows, mask) ==
    IF rows = <<>> THEN <<>>
    ELSE (IF mask[1] THEN <<rows[1]>> ELSE <<>>)
         \o SelectRows(Tail(rows), Tail(mask))

(***************************************************************************)
(* Strings (str.strip, str.lower, str.replace, str.startswith, int)        *)
(***************************************************************************)
Upper == "ABCDEFGHIJKLMNOPQRSTUVWXYZ"
Lower == "abcdefghijklmnopqrstuvwxyz"
Digits == "0123456789"

CharAt(s, i) == SubSeq(s, i, i)

IsSpace(c) == c \in {" ", "\t", "\n", "\r"}

LowerChar(c) ==
    IF \E i \in 1..Len(Upper) : CharAt(Upper, i) = c
    THEN CharAt(Lower, CHOOSE i \in 1..Len(Upper) : CharAt(Upper, i) = c)
    ELSE c

RECURSIVE StrLower(_)
StrLower(s) ==
    IF Len(s) = 0 THEN "" ELSE LowerChar(CharAt(s, 1)) \o StrLower(Tail(s))

RECURSIVE LStrip(_)
LStrip(s) ==
    IF Len(s) > 0 /\ IsSpace(CharAt(s, 1)) THEN LStrip(Tail(s)) ELSE s

RECURSIVE RStrip(_)
RStrip(s) ==
    IF Len(s) > 0 /\ IsSpace(CharAt(s, Len(s)))
    THEN RStrip(SubSeq(s, 1, Len(s) - 1)) ELSE s

StrStrip(s) == RStrip(LStrip(s))

StartsWith(s, p) == Len(s) >= Len(p) /\ SubSeq(s, 1, Len(p)) = p

\* s.replace(old, new): every non-overlapping occurrence, left to right.
RECURSIVE StrReplace(_, _, _)
StrReplace(s, old, new) ==
    IF Len(s) = 0 THEN ""
    ELSE IF StartsWith(s, old)
         THEN new \o StrReplace(SubSeq(s, Len(old) + 1, Len(s)), old, new)
         ELSE CharAt(s, 1) \o StrReplace(Tail(s), old, new)

DigitValue(c) == (CHOOSE i \in 1..Len(Digits) : CharAt(Digits, i) = c) - 1

\* int(s) on a string of decimal digits.
RECURSIVE ParseInt(_)
ParseInt(s) ==
    IF Len(s) = 0 THEN 0
    ELSE ParseInt(SubSeq(s, 1, Len(s) - 1)) * 10 + DigitValue(CharAt(s, Len(s)))

\* s.split("-")[1]: the text between the first and the second "-".
RECURSIVE UpToDash(_)
UpToDash(s) ==
    IF Len(s) = 0 \/ CharAt(s, 1) = "-" THEN ""
    ELSE CharAt(s, 1) \o UpToDash(Tail(s))

RECURSIVE AfterFirstDash(_)
AfterFirstDash(s) ==
    IF Len(s) = 0 THEN ""
    ELSE IF CharAt(s, 1) = "-" THEN UpToDash(Tail(s))
         ELSE AfterFirstDash(Tail(s))

(***************************************************************************)
(* load_data: column normalisation                                         *)
(***************************************************************************)
\* df.columns.str.strip().str.lower().str.replace("%", "")
\*   .str.replace("(cr)", "").str.replace(" ", "_")
NormalizeName(h) ==
    StrReplace(StrReplace(StrReplace(StrLower(StrStrip(h)), "%", ""),
                          "(cr)", ""), " ", "_")

\* df.rename(columns={...}): the two entries that are not the identity.
RenameCol(c) ==
    CASE c = "liquidity_rush" -> "liquidity"
      [] c = "daily_change"   -> "pct_chg"
      [] OTHER                -> c

\* df.loc[:, ~df.columns.duplicated()]: the first column of each name.
KeptCols(columns) ==
    {i \in DOMAIN columns : \A j \in 1..(i - 1) : columns[j] # columns[i]}

RECURSIVE PickCols(_, _, _)
PickCols(seq, keep, i) ==
    IF i > Len(seq) THEN <<>>
    ELSE (IF i \in keep THEN <<seq[i]>> ELSE <<>>) \o PickCols(seq, keep, i + 1)

DropDuplicated(f) ==
    LET keep == KeptCols(f.columns)
    IN  [columns |-> PickCols(f.columns, keep, 1),
         rows |-> [r \in DOMAIN f.rows |-> PickCols(f.rows[r], keep, 1)]]

Required == <<"symbol", "adr", "liquidity", "price", "pct_chg", "sector">>

\* for col in required: if col not in df.columns: df[col] = 0
RECURSIVE EnsureRequired(_, _)
EnsureRequired(f, i) ==
    IF i > Len(Required) THEN f
    ELSE EnsureRequired(
            IF HasCol(f, Required[i]) THEN f
            ELSE SetCol(f, Required[i], [r \in DOMAIN f.rows |-> Num(0)]),
            i + 1)

\* load_data up to (not including) its call of compute_macd_status.
Standardize(sheet) ==
    EnsureRequired(
        DropDuplicated(
            [columns |-> [i \in DOMAIN sheet.columns |->
                             RenameCol(NormalizeName(sheet.columns[i]))],
             rows |-> sheet.rows]),
        1)

(***************************************************************************)
(* compute_macd_status                                                     *)
(***************************************************************************)
SpanFast == 12
SpanSlow == 26
SpanSignal == 9
MinCloseCols == 26

\* Fixed-point resolution of the EMA arithmetic: a float close of x
\* thousandths is held as x * EmaUp.
EmaUp == 10 * 10

Favorable == {"Early Expansion", "Expansion", "Positive"}

\* [c for c in df.columns if c.startswith("close")]
RECURSIVE CloseCols(_)
CloseCols(columns) ==
    IF columns = <<>> THEN <<>>
    ELSE (IF StartsWith(columns[1], "close") THEN <<columns[1]>> ELSE <<>>)
         \o CloseCols(Tail(columns))

extract_number(col) ==
    IF col = "close" THEN 0 ELSE ParseInt(AfterFirstDash(col))

\* The sort without reverse=True: newest close first.
RECURSIVE InsertAsc(_, _)
InsertAsc(sorted, c) ==
    IF sorted = <<>> THEN <<c>>
    ELSE IF extract_number(sorted[1]) <= extract_number(c)
         THEN <<sorted[1]>> \o InsertAsc(Tail(sorted), c)
         ELSE <<c>> \o sorted

RECURSIVE SortCloseCols_Ascending(_)
SortCloseCols_Ascending(cols) ==
    IF cols = <<>> THEN <<>>
    ELSE InsertAsc(SortCloseCols_Ascending(SubSeq(cols, 1, Len(cols) - 1)),
                   cols[Len(cols)])

\* sorted(close_cols, key=extract_number, reverse=True): a stable sort,
\* largest offset (oldest close) first.
RECURSIVE InsertDesc(_, _)
InsertDesc(sorted, c) ==
    IF sorted = <<>> THEN <<c>>
    ELSE IF extract_number(sorted[1]) >= extract_number(c)
         THEN <<sorted[1]>> \o InsertDesc(Tail(sorted), c)
         ELSE <<c>> \o sorted

RECURSIVE SortCloseCols(_)
SortCloseCols(cols) ==
    IF cols = <<>> THEN <<>>
    ELSE InsertDesc(SortCloseCols(SubSeq(cols, 1, Len(cols) - 1)),
                    cols[Len(cols)])

RECURSIVE Pow(_, _)
Pow(b, e) == IF e = 0 THEN 1 ELSE b * Pow(b, e - 1)

\* One EMA update after k decay steps since the last observation
\* (k = 1 when no value was missing): weights (1-a)^k and a, a = 2/(span+1).
Blend(w, cur, span, k) ==
    w + ((cur - w) * 2 * Pow(span + 1, k - 1))
        \div (Pow(span - 1, k) + 2 * Pow(span + 1, k - 1))

\* series.ewm(span=span, adjust=False).mean(), ignore_na=False: seeded with
\* the first observation; a missing value repeats the previous average and
\* ages the weight of the past.
RECURSIVE EwmFrom(_, _, _, _, _)
EwmFrom(xs, span, i, w, k) ==
    IF i > Len(xs) THEN <<>>
    ELSE LET cur == xs[i]
             obs == cur.k = "num"
             k1  == IF w.k = "num" THEN k + 1 ELSE k
             w1  == IF w.k = "num"
                    THEN (IF obs THEN Num(Blend(w.v, cur.v, span, k1)) ELSE w)
                    ELSE (IF obs THEN cur ELSE w)
             k2  == IF w.k = "num" /\ obs THEN 0 ELSE k1
         IN  <<w1>> \o EwmFrom(xs, span, i + 1, w1, k2)

Ewm(xs, span) == EwmFrom(xs, span, 1, NaN, 0)

\* Element-wise a - b; a missing operand gives a missing result.
SeriesSub(a, b) ==
    [i \in DOMAIN a |->
        IF a[i].k = "num" /\ b[i].k = "num" THEN Num(a[i].v - b[i].v) ELSE NaN]

\* row[close_cols_sorted].astype(float): the closes, oldest first.
RowCloses(f, row, sorted) ==
    [i \in DOMAIN sorted |->
        LET c == Get(f, row, sorted[i])
        IN  IF c.k = "num" THEN Num(c.v * EmaUp) ELSE c]

\* astype(float) raises ValueError on a cell that is text.
AstypeRaises(f, row, sorted) ==
    \E i \in DOMAIN sorted : Get(f, row, sorted[i]).k = "str"

Hist(closes) ==
    LET macd   == SeriesSub(Ewm(closes, SpanFast), Ewm(closes, SpanSlow))
        signal == Ewm(macd, SpanSignal)
    IN  SeriesSub(macd, signal)

\* The legacy classification; every comparison with a missing value is false.
Classify(last_hist, prev_hist) ==
    LET ok == last_hist.k = "num" /\ prev_hist.k = "num"
    IN  IF ok /\ last_hist.v > 0 /\ prev_hist.v <= 0 THEN "Early Expansion"
        ELSE IF ok /\ last_hist.v > prev_hist.v /\ prev_hist.v > 0
             THEN "Expansion"
        ELSE IF last_hist.k = "num" /\ last_hist.v > 0 THEN "Positive"
        ELSE "Negative"

RowStatus(f, row, sorted) ==
    LET hist == Hist(RowCloses(f, row, sorted))
    IN  Classify(hist[Len(hist)], hist[Len(hist) - 1])

\* TRUE when compute_macd_status(f) raises instead of returning.
MacdRaises(f) ==
    LET close_cols == CloseCols(f.columns)
    IN  /\ Len(close_cols) >= MinCloseCols
        /\ \E r \in DOMAIN f.rows :
              AstypeRaises(f, f.rows[r], SortCloseCols(close_cols))

compute_macd_status(f) ==
    LET close_cols == CloseCols(f.columns)
        sorted     == SortCloseCols(close_cols)
    IN  IF Len(close_cols) < MinCloseCols
        THEN SetCol(f, "macd_status", [r \in DOMAIN f.rows |-> Text("Negative")])
        ELSE SetCol(f, "macd_status",
                    [r \in DOMAIN f.rows |-> Text(RowStatus(f, f.rows[r], sorted))])

load_data_raises(sheet) == MacdRaises(Standardize(sheet))

load_data(sheet) == compute_macd_status(Standardize(sheet))

(***************************************************************************)
(* Filters                                                                 *)
(***************************************************************************)
IsFavorable(f, row) == Get(f, row, "macd_status").s \in Favorable

\* series >= bound: false for a missing value.
Ge(cell, bound) == cell.k = "num" /\ cell.v >= bound

\* series.between(lo, hi): inclusive at both ends.
Between(cell, lo, hi) == cell.k = "num" /\ lo <= cell.v /\ cell.v <= hi

SwingMask(f, row) ==
    /\ Ge(Get(f, row, "liquidity"), Dec(100, 0))
    /\ Ge(Get(f, row, "adr"), Dec(2, 500))
    /\ IsFavorable(f, row)

swing_filter(f) ==
    [f EXCEPT !.rows =
        SelectRows(f.rows, [i \in DOMAIN f.rows |-> SwingMask(f, f.rows[i])])]

\* The adr band closed at 2.5 instead of 2.49.
AdrNearMask_UpTo25(f, row) ==
    /\ Ge(Get(f, row, "liquidity"), Dec(100, 0))
    /\ Between(Get(f, row, "adr"), Dec(2, 0), Dec(2, 500))
    /\ IsFavorable(f, row)

AdrNearMask(f, row) ==
    /\ Ge(Get(f, row, "liquidity"), Dec(100, 0))
    /\ Between(Get(f, row, "adr"), Dec(2, 0), Dec(2, 490))
    /\ IsFavorable(f, row)

MacdNearMask(f, row) ==
    /\ Ge(Get(f, row, "liquidity"), Dec(100, 0))
    /\ Ge(Get(f, row, "adr"), Dec(2, 500))
    /\ ~IsFavorable(f, row)

\* pd.concat([adr_near, macd_near])
near_miss_filter(f) ==
    [f EXCEPT !.rows =
        SelectRows(f.rows, [i \in DOMAIN f.rows |-> AdrNearMask(f, f.rows[i])])
        \o SelectRows(f.rows, [i \in DOMAIN f.rows |-> MacdNearMask(f, f.rows[i])])]

(***************************************************************************)
(* Scoring (values in millionths)                                          *)
(***************************************************************************)
Micro == 100 * 100 * 100

Min(a, b) == IF a <= b THEN a ELSE b

\* The component without its clamp: x / per * weight.
Scaled_NoClamp(x, per, weight) == x * ((weight * (10 * 100)) \div per)

\* min(x / per, 1) * weight for a cell value x in thousandths.  In millionths
\* x / per * weight is x * (1000 * weight / per), and per divides
\* 1000 * weight for every (per, weight) the code uses, so this is exact.
Scaled(x, per, weight) ==
    Min(x * ((weight * (10 * 100)) \div per), weight * Micro)

\* round(x, 2): to a multiple of 0.01, a tie to the even hundredth.
Round2(x) ==
    LET unit == 100 * 100
        q    == x \div unit
        r    == x % unit
    IN  IF 2 * r > unit \/ (2 * r = unit /\ q % 2 = 1)
        THEN (q + 1) * unit ELSE q * unit

SwingMacdScore(status) ==
    CASE status = "Expansion"       -> 30
      [] status = "Positive"        -> 25
      [] status = "Early Expansion" -> 20
      [] OTHER                      -> 0

compute_swing_score(f, row) ==
    LET liquidity_score == Scaled(Get(f, row, "liquidity").v, 1000, 30)
        adr_score       == Scaled(Get(f, row, "adr").v, 5, 25)
        macd_score      == SwingMacdScore(Get(f, row, "macd_status").s) * Micro
    IN  Round2(liquidity_score + adr_score + macd_score + 15 * Micro)

PositionalMacdScore(status) ==
    CASE status = "Expansion"       -> 25
      [] status = "Early Expansion" -> 22
      [] status = "Positive"        -> 18
      [] status = "Negative"        -> 5
      [] OTHER                      -> 5

compute_positional_score(f, row) ==
    LET status            == Get(f, row, "macd_status").s
        liquidity_score   == Scaled(Get(f, row, "liquidity").v, 2000, 30)
        adr_score         == Scaled(Get(f, row, "adr").v, 5, 15)
        macd_score        == PositionalMacdScore(status) * Micro
        suitability_score == IF status = "Negative" THEN 10 * Micro
                             ELSE 30 * Micro
        total_score       == liquidity_score + adr_score + macd_score
                             + suitability_score
    IN  Round2(IF status = "Negative" THEN Min(total_score, 60 * Micro)
               ELSE total_score)

(***************************************************************************)
(* Trade style                                                             *)
(***************************************************************************)
classify_swing_trade_style(f, row) ==
    LET status == Get(f, row, "macd_status").s
    IN  IF status \in {"Expansion", "Positive"}
           /\ Ge(Get(f, row, "adr"), Dec(5, 0))
        THEN "Volatility Expansion"
        ELSE IF status \in {"Expansion", "Early Expansion"}
                /\ Ge(Get(f, row, "pct_chg"), Dec(2, 0))
        THEN "Breakout Setup"
        ELSE IF status = "Early Expansion" THEN "Momentum Expansion"
        ELSE "Trend Continuation"

classify_positional_trade_style(f, row) ==
    LET status == Get(f, row, "macd_status").s
        score  == Get(f, row, "score").v
    IN  IF status = "Negative" THEN "Weak Structure"
        ELSE IF score >= 85 * Micro /\ status \in {"Expansion", "Positive"}
        THEN "Structural Trend"
        ELSE IF score >= 75 * Micro THEN "Positional Momentum"
        ELSE "Accumulation Phase"

(***************************************************************************)
(* Table builders                                                          *)
(***************************************************************************)
Perms(n) ==
    {p \in [1..n -> 1..n] : \A i, j \in 1..n : p[i] = p[j] => i = j}

\* df.sort_values("score", ascending=False): the default kind is
\* "quicksort", which numpy does not promise to be stable, so every order of
\* the rows with non-increasing score is a possible result.
sort_values_desc(f) ==
    {[f EXCEPT !.rows = [i \in DOMAIN f.rows |-> f.rows[p[i]]]] :
        p \in {q \in Perms(Len(f.rows)) :
                 \A i \in 1..(Len(f.rows) - 1) :
                    Get(f, f.rows[q[i]], "score").v
                      >= Get(f, f.rows[q[i + 1]], "score").v}}

\* df[cols] after df.rename: the named columns, in the order given.
Project(f, cols) ==
    [columns |-> [i \in DOMAIN cols |-> cols[i][2]],
     rows |-> [r \in DOMAIN f.rows |->
                 [i \in DOMAIN cols |-> Get(f, f.rows[r], cols[i][1])]]]

WithRank(f) == SetCol(f, "rank", [i \in DOMAIN f.rows |-> Num(i)])

SwingColumns ==
    << <<"rank", "Rank">>, <<"symbol", "Symbol">>,
       <<"trade_bias", "Trade Bias">>, <<"trade_style", "Trade Style">>,
       <<"macd_status", "MACD Status">>, <<"score", "Score">>,
       <<"price", "Price">>, <<"pct_chg", "% Chg">>, <<"adr", "ADR %">>,
       <<"liquidity", "Liquidity">>, <<"sector", "Sector">> >>

\* build_swing_table up to the sort: filter, score, bias, style.
SwingScored(f) ==
    LET f1 == swing_filter(f)
        f2 == SetCol(f1, "score",
                [i \in DOMAIN f1.rows |-> Num(compute_swing_score(f1, f1.rows[i]))])
        f3 == SetCol(f2, "trade_bias", [i \in DOMAIN f2.rows |-> Text("Bullish")])
    IN  SetCol(f3, "trade_style",
            [i \in DOMAIN f3.rows |->
                Text(classify_swing_trade_style(f3, f3.rows[i]))])

\* The tables build_swing_table(f) can return.
build_swing_table(f) ==
    {Project(WithRank(g), SwingColumns) : g \in sort_values_desc(SwingScored(f))}

PositionalColumns ==
    << <<"rank", "Rank">>, <<"symbol", "Symbol">>,
       <<"trade_bias", "Trade Bias">>, <<"trade_style", "Trade Style">>,
       <<"macd_status", "MACD Status">>, <<"score", "Score">>,
       <<"price", "Price">>, <<"pct_chg", "% Chg">>, <<"adr", "ADR %">>,
       <<"liquidity", "Liquidity">>,
       <<"trend_strength", "Trend Strength">>,
       <<"portfolio_action", "Portfolio Action">>, <<"sector", "Sector">> >>

\* df["score"] = df.apply(compute_positional_score, axis=1): written into
\* the caller's frame.
WithPositionalScore(f) ==
    SetCol(f, "score",
        [i \in DOMAIN f.rows |-> Num(compute_positional_score(f, f.rows[i]))])

\* The quality filter left out.
QualityMask_Off(f, row) == TRUE

\* The quality filter of build_positional_table.
QualityMask(f, row) ==
    /\ Get(f, row, "macd_status").s \in {"Expansion", "Early Expansion", "Positive"}
    /\ Get(f, row, "score").v >= 70 * Micro

\* build_positional_table up to the sort; f already carries the score.
PositionalScored(f) ==
    LET f1 == [f EXCEPT !.rows =
                 SelectRows(f.rows,
                     [i \in DOMAIN f.rows |-> QualityMask(f, f.rows[i])])]
        f2 == SetCol(f1, "trade_bias", [i \in DOMAIN f1.rows |-> Text("Bullish")])
        f3 == SetCol(f2, "trade_style",
                [i \in DOMAIN f2.rows |->
                    Text(classify_positional_trade_style(f2, f2.rows[i]))])
        f4 == SetCol(f3, "trend_strength",
                [i \in DOMAIN f3.rows |->
                    Text(IF Get(f3, f3.rows[i], "score").v >= 85 * Micro
                         THEN "Strong" ELSE "Moderate")])
    IN  SetCol(f4, "portfolio_action",
            [i \in DOMAIN f4.rows |->
                Text(IF Get(f4, f4.rows[i], "score").v >= 80 * Micro
                     THEN "Accumulate" ELSE "Hold")])

\* The tables build_positional_table(f) can return.
build_positional_table(f) ==
    {Project(WithRank(g), PositionalColumns) :
        g \in sort_values_desc(PositionalScored(WithPositionalScore(f)))}

(***************************************************************************)
(* Input sheets                                                            *)
(***************************************************************************)
MaxRows == 3       \* rows of a multi-row sheet
MaxStep == 3       \* a series moves by 0.5, 1.0, ... MaxStep * 0.5 per day

RECURSIVE IntToStr(_)
IntToStr(n) ==
    IF n < 10 THEN CharAt(Digits, n + 1)
    ELSE IntToStr(n \div 10) \o CharAt(Digits, (n % 10) + 1)

\* The close of k sessions back is in column "close-k", today's in "close".
CloseHeader(k) == IF k = 0 THEN "close" ELSE "close-" \o IntToStr(k)

\* Day t (0 = oldest) of a series of n closes, in thousandths.
Jump == 2 * 10
SeriesAt(shape, start, step, n, t) ==
    CASE shape = "ramp" -> start + step * t
      [] shape = "fall" -> start + step * (n - 1 - t)
      [] shape = "vee"  -> IF t < n - 1 THEN start + step * (n - 1 - t)
                           ELSE start + step * Jump
      [] shape = "late" -> IF t < n - 3 THEN start
                           ELSE start + step * (t - (n - 4)) * (t - (n - 4))

Shapes == {"ramp", "fall", "vee", "late"}

\* A row of the sheet: the metrics, and the closes as a shape with some
\* days replaced by bad (an empty cell or a text cell).
Profile(sym, liq, adr, pct, shape, start, step, holes, bad) ==
    [symbol |-> sym, liquidity |-> liq, adr |-> adr, price |-> Dec(50, 0),
     pct_chg |-> pct, sector |-> "IT", shape |-> shape, start |-> start,
     step |-> step, holes |-> holes, bad |-> bad]

MetricCell(p, field) ==
    IF field \in {"symbol", "sector"} THEN Text(p[field]) ELSE Num(p[field])

CloseCell(p, n, k) ==
    IF (n - 1 - k) \in p.holes THEN p.bad
    ELSE Num(SeriesAt(p.shape, p.start, p.step, n, n - 1 - k))

\* The sheet with the metric columns of heading (<<header, field>> pairs),
\* then n close columns, newest first.
Sheet(heading, n, profiles) ==
    [columns |-> [i \in 1..(Len(heading) + n) |->
                    IF i <= Len(heading) THEN heading[i][1]
                    ELSE CloseHeader(i - Len(heading) - 1)],
     rows |-> [r \in DOMAIN profiles |->
                 [i \in 1..(Len(heading) + n) |->
                    IF i <= Len(heading)
                    THEN MetricCell(profiles[r], heading[i][2])
                    ELSE CloseCell(profiles[r], n, i - Len(heading) - 1)]]]

Canonical ==
    << <<"symbol", "symbol">>, <<"adr", "adr">>, <<"liquidity", "liquidity">>,
       <<"price", "price">>, <<"pct_chg", "pct_chg">>, <<"sector", "sector">> >>

Headings ==
    { Canonical,
      << <<"Symbol", "symbol">>, <<"ADR%", "adr">>,
         <<"Liquidity (Cr)", "liquidity">>, <<"Price", "price">>,
         <<"Daily Change", "pct_chg">>, <<"Sector", "sector">> >>,
      << <<" SYMBOL ", "symbol">>, <<"Adr", "adr">>,
         <<"liquidity_rush", "liquidity">>, <<"change", "pct_chg">>,
         <<"SECTOR", "sector">> >> }

Steps == {k * 500 : k \in 1..MaxStep}

LiqGrid == {0, Dec(99, 999), Dec(100, 0), Dec(150, 0), Dec(1000, 0), Dec(2500, 0)}
AdrGrid == {0, Dec(1, 999), Dec(2, 0), Dec(2, 200), Dec(2, 490), Dec(2, 495),
            Dec(2, 500), Dec(3, 0), Dec(5, 0), Dec(7, 500)}

\* One row, every liquidity / adr / momentum combination.
GridSheets ==
    {Sheet(Canonical, MinCloseCols,
           <<Profile("AAA", l, a, Dec(1, 0), sh, Dec(10, 0), 1000, {}, NaN)>>) :
        l \in LiqGrid, a \in AdrGrid, sh \in Shapes}

\* One row under every heading, with and without enough close columns.
HeadingSheets ==
    {Sheet(h, n, <<Profile("AAA", Dec(150, 0), Dec(3, 0), Dec(2, 500), sh,
                           Dec(10, 0), 1000, {}, NaN)>>) :
        h \in Headings, n \in {1, MinCloseCols}, sh \in {"ramp", "vee"}}

\* Series of 25, 26 and 30 closes of every shape, start and step.
SeriesSheets ==
    {Sheet(Canonical, n,
           <<Profile("AAA", Dec(150, 0), Dec(3, 0), Dec(1, 0), sh, st, sp, {}, NaN)>>) :
        n \in {MinCloseCols - 1, MinCloseCols, 30}, sh \in Shapes,
        st \in {Dec(10, 0), Dec(20, 0)}, sp \in Steps}

\* Rows with closes missing or malformed: one of 26, one or five of 30.
HoleSets(n) ==
    IF n = MinCloseCols THEN {{0}, {13}, {n - 1}}
    ELSE {{13}, {9, 11, 13, 15, 17}}

HoleSheets ==
    UNION {{Sheet(Canonical, n,
                  <<Profile("AAA", Dec(150, 0), Dec(3, 0), Dec(1, 0), sh,
                            Dec(10, 0), 1000, hs, bad)>>) :
              hs \in HoleSets(n), sh \in {"ramp", "vee", "late"},
              bad \in {NaN, Text("n/a")}} : n \in {MinCloseCols, 30}}

\* Several rows, some with equal scores.
TablePool ==
    { Profile("AAA", Dec(2500, 0), Dec(5, 0), Dec(1, 0), "ramp", Dec(10, 0), 1000, {}, NaN),
      Profile("BBB", Dec(2500, 0), Dec(5, 0), Dec(3, 0), "ramp", Dec(20, 0), 500, {}, NaN),
      Profile("CCC", Dec(1000, 0), Dec(3, 0), Dec(2, 0), "late", Dec(10, 0), 1000, {}, NaN),
      Profile("DDD", Dec(2500, 0), Dec(5, 0), Dec(1, 0), "fall", Dec(10, 0), 1000, {}, NaN),
      Profile("EEE", Dec(2500, 0), Dec(5, 0), Dec(1, 0), "vee", Dec(10, 0), 1000, {}, NaN) }

TableSheets ==
    UNION {{Sheet(Canonical, MinCloseCols, ps) :
              ps \in {q \in [1..n -> TablePool] :
                        \A i, j \in 1..n : q[i] = q[j] => i = j}} :
           n \in 2..MaxRows}

Sheets == GridSheets \cup HeadingSheets \cup SeriesSheets \cup HoleSheets
          \cup TableSheets

(***************************************************************************)
(* The library called in pipeline order                                    *)
(***************************************************************************)
Init ==
    /\ raw \in Sheets
    /\ df = NoFrame
    /\ swing_df = NoFrame
    /\ pos_df = NoFrame
    /\ near_df = NoFrame
    /\ swing_score = <<>>
    /\ pos_score = <<>>
    /\ swing_table = NoFrame
    /\ pos_table = NoFrame
    /\ near_table = NoFrame
    /\ error = ""
    /\ pc = "start"
    /\ now = 0
    /\ run_start = 0
    /\ alerts = {}
    /\ prev_early = {}
    /\ cur_early = {}

AppVars == <<now, run_start, alerts, prev_early, cur_early, pos_df, near_table>>

\* df = load_data(path), the read having returned raw.
LoadData ==
    /\ pc = "start"
    /\ ~load_data_raises(raw)
    /\ df' = load_data(raw)
    /\ pc' = "loaded"
    /\ UNCHANGED <<raw, swing_df, near_df, swing_score, pos_score, swing_table,
                   pos_table, error, AppVars>>

\* load_data(path) raising out of compute_macd_status.
LoadDataRaises ==
    /\ pc = "start"
    /\ load_data_raises(raw)
    /\ error' = "ValueError"
    /\ pc' = "failed"
    /\ UNCHANGED <<raw, df, swing_df, near_df, swing_score, pos_score,
                   swing_table, pos_table, AppVars>>

SwingFilter ==
    /\ pc = "loaded"
    /\ swing_df' = swing_filter(df)
    /\ pc' = "swing"
    /\ UNCHANGED <<raw, df, near_df, swing_score, pos_score, swing_table,
                   pos_table, error, AppVars>>

NearMissFilter ==
    /\ pc = "swing"
    /\ near_df' = near_miss_filter(df)
    /\ pc' = "near"
    /\ UNCHANGED <<raw, df, swing_df, swing_score, pos_score, swing_table,
                   pos_table, error, AppVars>>

\* df.apply(compute_swing_score, axis=1) and
\* df.apply(compute_positional_score, axis=1) on the whole frame.
ScoreRows ==
    /\ pc = "near"
    /\ swing_score' = [i \in DOMAIN df.rows |-> compute_swing_score(df, df.rows[i])]
    /\ pos_score' = [i \in DOMAIN df.rows |-> compute_positional_score(df, df.rows[i])]
    /\ pc' = "scored"
    /\ UNCHANGED <<raw, df, swing_df, near_df, swing_table, pos_table, error,
                   AppVars>>

BuildSwingTable ==
    /\ pc = "scored"
    /\ swing_table' \in build_swing_table(df)
    /\ pc' = "swing_built"
    /\ UNCHANGED <<raw, df, swing_df, near_df, swing_score, pos_score,
                   pos_table, error, AppVars>>

\* build_positional_table(df): also leaves the score column in df.
BuildPositionalTable ==
    /\ pc = "swing_built"
    /\ pos_table' \in build_positional_table(df)
    /\ df' = WithPositionalScore(df)
    /\ pc' = "done"
    /\ UNCHANGED <<raw, swing_df, near_df, swing_score, pos_score, swing_table,
                   error, AppVars>>

Next ==
    \/ LoadData
    \/ LoadDataRaises
    \/ SwingFilter
    \/ NearMissFilter
    \/ ScoreRows
    \/ BuildSwingTable
    \/ BuildPositionalTable

Spec == Init /\ [][Next]_vars

(***************************************************************************)
(* app.py: the Streamlit script, run top to bottom, again and again        *)
(***************************************************************************)
SessionOpen == 9
SessionClose == 15
RefreshSeconds == 900

Day == 24 * 3600

\* The clock is read at quarter hours.
Clocks == {k * RefreshSeconds : k \in 0..((Day \div RefreshSeconds) - 1)}

\* When the page is opened or used: around both ends of the session, inside
\* it, and in the evening.
UserTimes ==
    {t \in Clocks :
        t \in {SessionOpen * 3600 - RefreshSeconds, SessionOpen * 3600,
                12 * 3600, SessionClose * 3600 - RefreshSeconds,
                SessionClose * 3600, 20 * 3600}}

\* 9 <= now.hour < 15
InSession(t) == SessionOpen <= t \div 3600 /\ t \div 3600 < SessionClose

\* positional_filter is imported by app.py and is not defined in
\* legacy_logic.py: no liquidity / adr gate, every row is scored.
positional_filter(f) == f

\* build_near_miss_table is imported by app.py and is not defined in
\* legacy_logic.py: the rows, ranked.
build_near_miss_table(f) == WithRank(f)

\* swing_df[swing_df["macd status"] == "Early Expansion"]: raises KeyError
\* when the frame has no column of that name.
EarlyKeyError(f) == ~HasCol(f, "macd status")

early_expansion(f) ==
    [f EXCEPT !.rows =
        SelectRows(f.rows,
            [i \in DOMAIN f.rows |->
                Get(f, f.rows[i], "macd status").s = "Early Expansion"])]

\* The symbols of the Swing set that are "Early Expansion".
EarlySymbols(f) ==
    {Get(f, f.rows[i], "symbol").s :
        i \in {j \in DOMAIN f.rows :
                 Get(f, f.rows[j], "macd_status").s = "Early Expansion"}}

\* What the script fetches: a few sheets, one of them with a malformed close.
AppSheets ==
    {Sheet(Canonical, MinCloseCols, ps) :
        ps \in {q \in [1..2 -> {p \in TablePool : p.symbol \in {"AAA", "DDD", "EEE"}}] :
                  q[1] # q[2]}}
    \cup {Sheet(Canonical, MinCloseCols,
                <<Profile("AAA", Dec(150, 0), Dec(3, 0), Dec(1, 0), "vee",
                          Dec(10, 0), 1000, {13}, Text("n/a"))>>)}

AppInit ==
    /\ raw = NoFrame
    /\ df = NoFrame
    /\ swing_df = NoFrame
    /\ pos_df = NoFrame
    /\ near_df = NoFrame
    /\ swing_score = <<>>
    /\ pos_score = <<>>
    /\ swing_table = NoFrame
    /\ pos_table = NoFrame
    /\ near_table = NoFrame
    /\ error = ""
    /\ pc = "app_start"
    /\ now \in UserTimes
    /\ run_start = now
    /\ alerts = {}
    /\ prev_early = {}
    /\ cur_early = {}

\* A new run of the script at time t: nothing of the last run is kept.
NewRun(t) ==
    /\ raw' = NoFrame
    /\ df' = NoFrame
    /\ swing_df' = NoFrame
    /\ pos_df' = NoFrame
    /\ near_df' = NoFrame
    /\ swing_table' = NoFrame
    /\ pos_table' = NoFrame
    /\ near_table' = NoFrame
    /\ error' = ""
    /\ pc' = "app_start"
    /\ now' = t
    /\ run_start' = t
    /\ alerts' = {}
    /\ prev_early' = cur_early
    /\ cur_early' = {}
    /\ UNCHANGED <<swing_score, pos_score>>

\* Lines 19-23 inside the session: time.sleep(900), then st.rerun() ends
\* the run.
AutoRefresh ==
    /\ pc = "app_start"
    /\ InSession(now)
    /\ now' = (now + RefreshSeconds) % Day
    /\ pc' = "app_rerun"
    /\ UNCHANGED <<raw, df, swing_df, pos_df, near_df, swing_score, pos_score,
                   swing_table, pos_table, near_table, error, run_start,
                   alerts, prev_early, cur_early>>

\* Streamlit starts the run st.rerun() asked for.
Rerun ==
    /\ pc = "app_rerun"
    /\ NewRun(now)

\* Lines 33-37 outside the session: load_data, then compute_macd_status
\* once more.
AppLoad ==
    /\ pc = "app_start"
    /\ ~InSession(now)
    /\ \E sheet \in AppSheets :
          /\ raw' = sheet
          /\ IF load_data_raises(sheet)
             THEN /\ error' = "ValueError"
                  /\ pc' = "app_failed"
                  /\ df' = df
             ELSE /\ df' = compute_macd_status(load_data(sheet))
                  /\ pc' = "app_loaded"
                  /\ error' = error
    /\ UNCHANGED <<swing_df, pos_df, near_df, swing_score, pos_score,
                   swing_table, pos_table, near_table, now, run_start, alerts,
                   prev_early, cur_early>>

\* Lines 39-42.
AppFilter ==
    /\ pc = "app_loaded"
    /\ swing_df' = swing_filter(df)
    /\ pos_df' = positional_filter(df)
    /\ near_df' = near_miss_filter(df)
    /\ cur_early' = EarlySymbols(swing_filter(df))
    /\ pc' = "app_filtered"
    /\ UNCHANGED <<raw, df, swing_score, pos_score, swing_table, pos_table,
                   near_table, error, now, run_start, alerts, prev_early>>

\* Lines 44-83: the three tables, then their display.
AppBuild ==
    /\ pc = "app_filtered"
    /\ swing_table' \in build_swing_table(swing_df)
    /\ pos_table' \in build_positional_table(pos_df)
    /\ pos_df' = WithPositionalScore(pos_df)
    /\ near_table' = build_near_miss_table(near_df)
    /\ pc' = "app_built"
    /\ UNCHANGED <<raw, df, swing_df, near_df, swing_score, pos_score, error,
                   now, run_start, alerts, prev_early, cur_early>>

\* Lines 85-106: the alert loop, then the metadata.
AppAlert ==
    /\ pc = "app_built"
    /\ IF EarlyKeyError(swing_df)
       THEN /\ error' = "KeyError"
            /\ pc' = "app_failed"
            /\ alerts' = alerts
       ELSE /\ alerts' = Symbols(early_expansion(swing_df))
            /\ pc' = "app_done"
            /\ error' = error
    /\ UNCHANGED <<raw, df, swing_df, pos_df, near_df, swing_score, pos_score,
                   swing_table, pos_table, near_table, now, run_start,
                   prev_early, cur_early>>

\* Outside the session the script runs again when the page is used again.
RunAgain ==
    /\ pc \in {"app_done", "app_failed"}
    /\ \E t \in UserTimes : NewRun(t)

AppNext ==
    \/ AutoRefresh
    \/ Rerun
    \/ AppLoad
    \/ AppFilter
    \/ AppBuild
    \/ AppAlert
    \/ RunAgain

AppSpec == AppInit /\ [][AppNext]_vars

(***************************************************************************)
(* Properties                                                              *)
(***************************************************************************)
Filtered == {"near", "scored", "swing_built", "done"}
Scored == {"scored", "swing_built", "done"}

\* The closes of a row as the sheet gives them: how many close columns, and
\* the cell of day t (0 = oldest), read off the column headers.
NumClose(sheet) ==
    Cardinality({i \in DOMAIN sheet.columns : StartsWith(sheet.columns[i], "close")})

SheetClose(sheet, r, t) ==
    sheet.rows[r][ColIndex(sheet.columns, CloseHeader(NumClose(sheet) - 1 - t))]

ValidCloses(sheet, r) ==
    Cardinality({t \in 0..(NumClose(sheet) - 1) : SheetClose(sheet, r, t).k = "num"})

StatusOf(f, r) == Get(f, f.rows[r], "macd_status").s

\* C1: no row is returned by both swing_filter and near_miss_filter.
C1_Disjoint ==
    pc \in Filtered => Symbols(swing_df) \cap Symbols(near_df) = {}

C1_Witness ==
    /\ pc = "near"
    /\ Len(swing_df.rows) > 0
    /\ Len(near_df.rows) > 0
    /\ \E i \in DOMAIN near_df.rows :
          Get(near_df, near_df.rows[i], "adr").v >= Dec(2, 500)

\* C2 (as claimed): a row is in near_miss_filter's output exactly when
\* liquidity >= 100 and either 2.0 <= adr < 2.5 with a favorable status or
\* adr >= 2.5 with a status that is not favorable.
C2_NearMissIff ==
    pc \in Filtered =>
        \A r \in DOMAIN df.rows :
            LET row == df.rows[r]
                liq == Get(df, row, "liquidity").v
                adr == Get(df, row, "adr").v
                fav == Get(df, row, "macd_status").s \in Favorable
            IN  (Get(df, row, "symbol").s \in Symbols(near_df))
                <=> /\ liq >= Dec(100, 0)
                    /\ \/ (Dec(2, 0) <= adr /\ adr < Dec(2, 500) /\ fav)
                       \/ (adr >= Dec(2, 500) /\ ~fav)

\* C3 (as claimed): the headers the contract names reach their canonical
\* column, which then carries the sheet column's values.
ClaimedName(sheet, h) ==
    CASE h \in {"Daily Change", "change"}            -> "pct_chg"
      [] h = "ADR%"                                  -> "adr"
      [] h \in {"Liquidity (Cr)", "liquidity_rush"}  -> "liquidity"
      [] h = "close" /\ \A i \in DOMAIN sheet.columns :
                           StrLower(StrStrip(sheet.columns[i])) # "price"
                                                     -> "price"
      [] OTHER                                       -> ""

C3_SynonymsMapped ==
    pc = "loaded" =>
        \A i \in DOMAIN raw.columns :
            LET name == ClaimedName(raw, raw.columns[i])
            IN  name # "" =>
                    /\ HasCol(df, name)
                    /\ \A r \in DOMAIN raw.rows :
                          Get(df, df.rows[r], name) = raw.rows[r][i]

\* A row whose 30 closes rise by one positive step per day.
IsRamp30(sheet, r) ==
    /\ NumClose(sheet) = 30
    /\ \A t \in 0..29 : SheetClose(sheet, r, t).k = "num"
    /\ SheetClose(sheet, r, 1).v > SheetClose(sheet, r, 0).v
    /\ \A t \in 1..29 :
          SheetClose(sheet, r, t).v - SheetClose(sheet, r, t - 1).v
            = SheetClose(sheet, r, 1).v - SheetClose(sheet, r, 0).v

\* The histogram compute_macd_status computes for row r of df.
HistOf(f, r) == Hist(RowCloses(f, f.rows[r], SortCloseCols(CloseCols(f.columns))))

\* What fixed-point rounding can add to a histogram value: under one unit
\* per EMA step, which an EMA of span n sums to under (n + 1) / 2 units.
Tol == 5 * 10

\* C4 (as claimed): a row of 30 closes rising by a constant step is
\* classified "Expansion".
C4_RampIsExpansion ==
    pc = "loaded" =>
        \A r \in DOMAIN raw.rows :
            IsRamp30(raw, r) => StatusOf(df, r) = "Expansion"

\* C4 (amended): for such a row the last histogram value is positive and
\* strictly smaller than the previous one, and the row is classified
\* "Positive".
C4_RampIsPositive ==
    pc = "loaded" =>
        \A r \in DOMAIN raw.rows :
            IsRamp30(raw, r) =>
                LET hist == HistOf(df, r)
                IN  /\ hist[30].v > Tol
                    /\ hist[29].v - hist[30].v > Tol
                    /\ StatusOf(df, r) = "Positive"

C4_Witness ==
    /\ pc = "loaded"
    /\ \E r \in DOMAIN raw.rows : IsRamp30(raw, r) /\ StatusOf(df, r) = "Positive"

\* C5 (as claimed): a row with fewer than 26 valid closes gets the fallback
\* "Negative" and classification raises no error.
C5_FallbackForShortRows ==
    /\ pc = "failed" =>
          \A r \in DOMAIN raw.rows : ValidCloses(raw, r) >= MinCloseCols
    /\ pc = "loaded" =>
          \A r \in DOMAIN raw.rows :
              ValidCloses(raw, r) < MinCloseCols => StatusOf(df, r) = "Negative"

\* The position in f of the row with this symbol.
RowOfSymbol(f, sym) ==
    CHOOSE i \in DOMAIN f.rows : Get(f, f.rows[i], "symbol") = sym

ScoreDescending(t) ==
    \A i \in 1..(Len(t.rows) - 1) :
        Get(t, t.rows[i], "Score").v >= Get(t, t.rows[i + 1], "Score").v

\* Rows of table t with equal score stand in the order they have in f.
TiesKeepOrder(t, f) ==
    \A i, j \in DOMAIN t.rows :
        (i < j /\ Get(t, t.rows[i], "Score") = Get(t, t.rows[j], "Score"))
            => RowOfSymbol(f, Get(t, t.rows[i], "Symbol"))
                 < RowOfSymbol(f, Get(t, t.rows[j], "Symbol"))

\* C6 (as claimed): both tables are ordered by score descending, and rows
\* with equal score keep the order they had before the sort.
C6_StableSort ==
    /\ pc \in {"swing_built", "done"} =>
          ScoreDescending(swing_table) /\ TiesKeepOrder(swing_table, df)
    /\ pc = "done" =>
          ScoreDescending(pos_table) /\ TiesKeepOrder(pos_table, df)

\* C7: for liquidity >= 0 and adr >= 0 both scores have at most two decimal
\* places and are at most 100.
C7_ScoreBounds ==
    pc \in Scored =>
        \A r \in DOMAIN swing_score :
            (Get(df, df.rows[r], "liquidity").v >= 0
             /\ Get(df, df.rows[r], "adr").v >= 0)
            => /\ swing_score[r] <= 100 * Micro
               /\ swing_score[r] % (100 * 100) = 0
               /\ pos_score[r] <= 100 * Micro
               /\ pos_score[r] % (100 * 100) = 0

C7_Witness ==
    /\ pc = "scored"
    /\ \E r \in DOMAIN swing_score :
          /\ Get(df, df.rows[r], "adr").v > Dec(5, 0)
          /\ swing_score[r] = 100 * Micro
          /\ pos_score[r] = 100 * Micro

\* C10: no row of the positional table is "Negative", so none is styled
\* "Weak Structure" and every score in it is the plain sum with suitability
\* 30 and no cap.
C10_PositionalNeverNegative ==
    pc = "done" =>
        \A i \in DOMAIN pos_table.rows :
            LET row == pos_table.rows[i]
                col(c) == Get(pos_table, row, c)
            IN  /\ col("MACD Status").s # "Negative"
                /\ col("Trade Style").s \in
                      {"Structural Trend", "Positional Momentum", "Accumulation Phase"}
                /\ col("Score").v =
                      Round2(Scaled(col("Liquidity").v, 2000, 30)
                             + Scaled(col("ADR %").v, 5, 15)
                             + PositionalMacdScore(col("MACD Status").s) * Micro
                             + 30 * Micro)

C10_Witness ==
    /\ pc = "done"
    /\ Len(pos_table.rows) > 0
    /\ \E r \in DOMAIN df.rows : StatusOf(df, r) = "Negative"

AppAlerted == pc \in {"app_done", "app_failed"} /\ swing_table # NoFrame

C9_PipelineBeforeRerun ==
    (pc = "app_rerun" /\ InSession(run_start)) =>
        /\ df # NoFrame
        /\ swing_table # NoFrame
        /\ pos_table # NoFrame
        /\ near_table # NoFrame

====
